---- MODULE Spec2Model ----
(***************************************************************************)
(* A model of task_1.py: the LRU cache (class LRUCache, an OrderedDict     *)
(* with a capacity), the cached and uncached range-sum / point-update      *)
(* functions over a Python list of integers.                               *)
(*                                                                         *)
(* The OrderedDict is a sequence of entries [key, value]; index 1 is the   *)
(* first item (the least recently used end, the one popitem(last=False)    *)
(* removes) and index Len is the last item (the most recently used end).   *)
(* A Python list of length n is a function on 0..n-1.                      *)
(***************************************************************************)
EXTENDS Integers, Sequences, FiniteSets, TLC

\* ------------------------------------------------------------------ bounds
ArrLen == 3          \* length n of the array
MaxCap == 3          \* capacities 1..MaxCap are explored
MaxSteps == 4        \* calls made in one run

\* The integers an array element (and a directly put value) can take.  -1 is
\* the value LRUCache.get also uses for "not found".
Vals == {-1, 1}

Idx == 0..(ArrLen - 1)
Keys == {k \in Idx \X Idx : k[1] <= k[2]}
Arrays == [Idx -> Vals]

VARIABLES
    array,      \* the list handed to range_sum_with_cache / update_with_cache
    arrayNC,    \* the equal list handed to range_sum_no_cache / update_no_cache
    cache,      \* LRUCache.cache, first item first
    capacity,   \* LRUCache.capacity
    recent,     \* history: the `capacity` most recently touched distinct keys
    invalidated,\* history: update_with_cache has been called
    last,       \* the call that produced this state and what it returned
    raised,     \* that call raised IndexError instead of returning
    steps       \* calls made so far

cacheVars ==
    <<array, arrayNC, cache, capacity, recent, invalidated, last, raised, steps>>

\* make_queries(n, q, hot_pool): the list `queries` is only appended to, and
\* is kept as its length and its last element.
VARIABLES
    gen_n,      \* n, the array size handed to make_queries
    gen_q,      \* q, the number of queries asked for
    hot_pool,   \* the number of hot ranges asked for
    hot,        \* the list `hot`
    made,       \* len(queries)
    query,      \* queries[-1]
    returned    \* make_queries has returned `queries`

genVars == <<gen_n, gen_q, hot_pool, hot, made, query, returned>>

\* task_2.py, SlidingWindowRateLimiter
VARIABLES
    window_size,    \* self.window_size
    max_requests,   \* self.max_requests
    user_requests,  \* self.user_requests: user -> deque of timestamps
    now,            \* the clock time.time() reads
    lastReq         \* the limiter call that produced this state

limVars == <<window_size, max_requests, user_requests, now, lastReq>>

vars == <<cacheVars, genVars, limVars>>

\* ------------------------------------------------------- OrderedDict steps
\* key in self.cache
HasKey(c, key) == \E i \in 1..Len(c) : c[i].key = key

\* self.cache[key]
Lookup(c, key) == c[CHOOSE i \in 1..Len(c) : c[i].key = key].value

DropKey(c, key) == SelectSeq(c, LAMBDA e : e.key # key)

\* Variant: move_to_end(key, last=False), the key goes to the front.
MoveToFront(c, key) ==
    <<[key |-> key,
       value |-> c[CHOOSE i \in 1..Len(c) : c[i].key = key].value]>>
      \o SelectSeq(c, LAMBDA e : e.key # key)

\* self.cache.move_to_end(key)
MoveToEnd(c, key) ==
    Append(DropKey(c, key), [key |-> key, value |-> Lookup(c, key)])

\* self.cache[key] = value : an existing key keeps its position
SetItem(c, key, value) ==
    IF HasKey(c, key)
    THEN [i \in 1..Len(c) |->
            IF c[i].key = key THEN [key |-> key, value |-> value] ELSE c[i]]
    ELSE Append(c, [key |-> key, value |-> value])

\* Variant: popitem() with its default last=True.
PopItemLast(c) == SubSeq(c, 1, Len(c) - 1)

\* self.cache.popitem(last=False)
PopItemFirst(c) == Tail(c)

\* del cache.cache[key]
DelItem(c, key) == DropKey(c, key)

\* ----------------------------------------------------------------- LRUCache
\* Variants of get: one that leaves the order alone, and one that pops the
\* entry to move it and does not put it back.
CacheGetNoMove(c, key) ==
    IF ~HasKey(c, key)
    THEN [ret |-> -1, cache |-> c]
    ELSE [ret |-> Lookup(c, key), cache |-> c]

CacheGetPop(c, key) ==
    IF ~HasKey(c, key)
    THEN [ret |-> -1, cache |-> c]
    ELSE [ret |-> Lookup(c, key), cache |-> DropKey(c, key)]

\* LRUCache.get : the returned value and the cache afterwards
CacheGet(c, key) ==
    IF ~HasKey(c, key)
    THEN [ret |-> -1, cache |-> c]
    ELSE LET moved == MoveToEnd(c, key)
         IN  [ret |-> Lookup(moved, key), cache |-> moved]

\* Variants of put: one that stores an existing key where it is, and one
\* whose capacity test is off by one.
CachePutNoMove(c, cap, key, value) ==
    LET stored == SetItem(c, key, value)
    IN  IF Len(stored) > cap THEN PopItemFirst(stored) ELSE stored

CachePutOffByOne(c, cap, key, value) ==
    LET moved  == IF HasKey(c, key) THEN MoveToEnd(c, key) ELSE c
        stored == SetItem(moved, key, value)
    IN  IF Len(stored) > cap + 1 THEN PopItemFirst(stored) ELSE stored

\* LRUCache.put : the cache afterwards
CachePut(c, cap, key, value) ==
    LET moved  == IF HasKey(c, key) THEN MoveToEnd(c, key) ELSE c
        stored == SetItem(moved, key, value)
    IN  IF Len(stored) > cap THEN PopItemFirst(stored) ELSE stored

\* LRUCache.get_all_keys : a list copy of the keys, in dictionary order
GetAllKeys(c) == [i \in 1..Len(c) |-> c[i].key]

\* ------------------------------------------------------------ the functions
RECURSIVE SumFromTo(_, _, _)
SumFromTo(arr, from, to) ==
    IF from > to THEN 0 ELSE arr[from] + SumFromTo(arr, from + 1, to)

\* A slice bound as list slicing reads it: a negative bound counts from the
\* end, and the result is clamped into 0..n.
SliceBound(n, b) ==
    LET shifted == IF b < 0 THEN b + n ELSE b
    IN  IF shifted < 0 THEN 0 ELSE IF shifted > n THEN n ELSE shifted

\* sum(array[left: right + 1])
SliceSum(arr, left, right) ==
    LET n == Cardinality(DOMAIN arr)
    IN  SumFromTo(arr, SliceBound(n, left), SliceBound(n, right + 1) - 1)

\* range_sum_no_cache
RangeSumNoCache(arr, left, right) == SliceSum(arr, left, right)

\* array[index] = value : an index in -n..-1 counts from the end, any other
\* index outside 0..n-1 raises IndexError and nothing is written
ListSetItem(arr, index, value) ==
    LET n == Cardinality(DOMAIN arr)
    IN  IF index < 0 - n \/ index >= n
        THEN [raised |-> TRUE, array |-> arr]
        ELSE [raised |-> FALSE,
              array |-> [arr EXCEPT ![IF index < 0 THEN index + n ELSE index]
                                        = value]]

\* update_no_cache
UpdateNoCache(arr, index, value) == ListSetItem(arr, index, value).array

\* range_sum_with_cache : the returned sum, the cache afterwards, whether the
\* array was scanned and whether cache.put was called
RangeSumWithCache(arr, left, right, c, cap) ==
    LET key == <<left, right>>
        got == CacheGet(c, key)
    IN  IF got.ret # -1
        THEN [ret |-> got.ret, cache |-> got.cache,
              scanned |-> FALSE, putCalled |-> FALSE]
        ELSE LET result == SliceSum(arr, left, right)
             IN  [ret |-> result,
                  cache |-> CachePut(got.cache, cap, key, result),
                  scanned |-> TRUE, putCalled |-> TRUE]

\* Variants of the first loop: a strict left comparison, and a test of the
\* left end only.
KeysToInvalidateStrict(c, index) ==
    SelectSeq([i \in 1..Len(c) |-> c[i].key],
              LAMBDA k : k[1] < index /\ index <= k[2])

KeysToInvalidateLeftOnly(c, index) ==
    SelectSeq([i \in 1..Len(c) |-> c[i].key], LAMBDA k : k[1] <= index)

\* Variant: a strict right comparison.
KeysToInvalidateRightStrict(c, index) ==
    SelectSeq([i \in 1..Len(c) |-> c[i].key],
              LAMBDA k : k[1] <= index /\ index < k[2])

\* the first loop of update_with_cache: the keys whose range holds the index
KeysToInvalidate(c, index) ==
    SelectSeq(GetAllKeys(c), LAMBDA k : k[1] <= index /\ index <= k[2])

\* Variant of the second loop: every other key is skipped, as when a
\* collection is changed while it is iterated.
RECURSIVE DeleteAllSkipping(_, _)
DeleteAllSkipping(c, ks) ==
    IF ks = <<>> THEN c
    ELSE DeleteAllSkipping(SelectSeq(c, LAMBDA e : e.key # Head(ks)),
                           IF Len(ks) >= 2 THEN Tail(Tail(ks)) ELSE <<>>)

\* the second loop of update_with_cache
RECURSIVE DeleteAll(_, _)
DeleteAll(c, ks) ==
    IF ks = <<>> THEN c
    ELSE DeleteAll(IF HasKey(c, Head(ks)) THEN DelItem(c, Head(ks)) ELSE c,
                   Tail(ks))

\* Variant: the invalidation is done before the array is written.
UpdateWithCacheInvalidateFirst(arr, index, value, c) ==
    LET written == ListSetItem(arr, index, value)
    IN  [array |-> written.array,
         cache |-> DeleteAll(c, KeysToInvalidate(c, index)),
         raised |-> written.raised]

\* update_with_cache : the array and the cache afterwards, or the IndexError
\* of its first statement, which ends the call
UpdateWithCache(arr, index, value, c) ==
    LET written == ListSetItem(arr, index, value)
    IN  IF written.raised
        THEN [array |-> arr, cache |-> c, raised |-> TRUE]
        ELSE [array |-> written.array,
              cache |-> DeleteAll(c, KeysToInvalidate(c, index)),
              raised |-> FALSE]

\* ------------------------------------------------------------------ history
\* A touch of a key is a put of it or a get of it that finds it.  `recent` is
\* the K most recently touched distinct keys, least recent first, kept from
\* the calls alone; after one more touch it depends only on what it was.  It
\* is kept while the cache is driven by get and put only: the first
\* update_with_cache ends the history (invalidated), and `recent` is emptied.
Touch(r, key, K) ==
    LET s == Append(SelectSeq(r, LAMBDA k : k # key), key)
    IN  IF Len(s) > K THEN Tail(s) ELSE s

None == <<>>

\* What `last` records of a call: the operation and its arguments, the value
\* returned, whether the key was in the cache when the call was made, the size
\* of the cache then, whether the array was scanned, whether cache.put was
\* called, and whether the call before was a get of the same key.
Call(op, key, index, value, ret, present, sizeBefore, scanned, putCalled, again) ==
    [op |-> op, key |-> key, index |-> index, value |-> value, ret |-> ret,
     present |-> present, sizeBefore |-> sizeBefore,
     scanned |-> scanned, putCalled |-> putCalled, again |-> again]

\* ------------------------------------------------------------- make_queries
MaxN == 3            \* array sizes 1..MaxN
MaxQ == 2            \* query counts 0..MaxQ
MaxHot == 1          \* hot pool sizes 1..MaxHot
UpdateValMax == 100  \* random.randint(1, 100)

\* random.randint(a, b): any integer of a..b, both ends included
RandInt(a, b) == a..b

\* Variant: the right end drawn by randint(n // 2, n).
HotPairRightInclusive(size) ==
    RandInt(0, size \div 2) \X RandInt(size \div 2, size)

\* (random.randint(0, n // 2), random.randint(n // 2, n - 1))
HotPair(size) == RandInt(0, size \div 2) \X RandInt(size \div 2, size - 1)

\* Variant: the right end drawn without regard to the left end.
RandomRangeIndependent(size) ==
    RandInt(0, size - 1) \X RandInt(0, size - 1)

\* left = randint(0, n - 1); right = randint(left, n - 1)
RandomRange(size) ==
    {lr \in RandInt(0, size - 1) \X RandInt(0, size - 1) : lr[1] <= lr[2]}

Query(type, a, b) == [type |-> type, a |-> a, b |-> b]

NoQuery == Query("none", 0, 0)

\* make_queries is called with these arguments
GenInit ==
    /\ gen_n \in 1..MaxN
    /\ gen_q \in 0..MaxQ
    /\ hot_pool \in 1..MaxHot
    /\ hot = <<>>
    /\ made = 0
    /\ query = NoQuery
    /\ returned = FALSE

\* make_queries is not called
GenIdle ==
    /\ gen_n = 1 /\ gen_q = 0 /\ hot_pool = 1
    /\ hot = <<>> /\ made = 0 /\ query = NoQuery /\ returned = FALSE

\* one element of the list comprehension that builds `hot`
HotDraw ==
    /\ ~returned /\ Len(hot) < hot_pool
    /\ \E lr \in HotPair(gen_n) : hot' = Append(hot, lr)
    /\ UNCHANGED <<gen_n, gen_q, hot_pool, made, query, returned>>

InLoop == ~returned /\ Len(hot) = hot_pool /\ made < gen_q

\* a loop turn with random.random() < p_update
GenUpdate ==
    /\ InLoop
    /\ \E idx \in RandInt(0, gen_n - 1), val \in RandInt(1, UpdateValMax) :
          query' = Query("Update", idx, val)
    /\ made' = made + 1
    /\ UNCHANGED <<gen_n, gen_q, hot_pool, hot, returned>>

\* a loop turn with random.random() < p_hot: random.choice(hot)
GenHot ==
    /\ InLoop
    /\ \E i \in 1..Len(hot) : query' = Query("Range", hot[i][1], hot[i][2])
    /\ made' = made + 1
    /\ UNCHANGED <<gen_n, gen_q, hot_pool, hot, returned>>

\* a loop turn that draws a fresh range
GenRandom ==
    /\ InLoop
    /\ \E lr \in RandomRange(gen_n) : query' = Query("Range", lr[1], lr[2])
    /\ made' = made + 1
    /\ UNCHANGED <<gen_n, gen_q, hot_pool, hot, returned>>

\* return queries
GenReturn ==
    /\ ~returned /\ Len(hot) = hot_pool /\ made = gen_q
    /\ returned' = TRUE
    /\ UNCHANGED <<gen_n, gen_q, hot_pool, hot, made, query>>

\* -------------------------------------------------- SlidingWindowRateLimiter
\* Time is counted in whole ticks of a clock that never goes back; a deque
\* of timestamps is a sequence, oldest first; the dictionary user_requests is
\* a function whose domain is the set of users it holds.
MaxWindow == 2       \* window sizes 1..MaxWindow
MaxReq == 2          \* max_requests 0..MaxReq
MaxTime == 3         \* the clock reads 0..MaxTime

Users == {"u1", "u2"}

NoUsers == <<>>

\* self.user_requests.get(user_id, [])
Stamps(reqs, user) == IF user \in DOMAIN reqs THEN reqs[user] ELSE <<>>

\* Variants of the while loop: a strict comparison, and an `if` that pops
\* once.
RECURSIVE PopExpiredStrict(_, _)
PopExpiredStrict(stamps, start) ==
    IF stamps # <<>> /\ Head(stamps) < start
    THEN PopExpiredStrict(Tail(stamps), start)
    ELSE stamps

PopExpiredOnce(stamps, start) ==
    IF stamps # <<>> /\ Head(stamps) <= start THEN Tail(stamps) ELSE stamps

\* while user_timestamps and user_timestamps[0] <= window_start_time:
\*     user_timestamps.popleft()
RECURSIVE PopExpired(_, _)
PopExpired(stamps, start) ==
    IF stamps # <<>> /\ Head(stamps) <= start
    THEN PopExpired(Tail(stamps), start)
    ELSE stamps

\* Variant: a user whose window became empty is kept.
CleanupWindowKeepEmpty(reqs, user, t, w) ==
    IF user \in DOMAIN reqs
    THEN [reqs EXCEPT ![user] = PopExpired(reqs[user], t - w)]
    ELSE reqs

\* _cleanup_window(user_id, current_time) : user_requests afterwards
CleanupWindow(reqs, user, t, w) ==
    IF user \in DOMAIN reqs
    THEN LET kept == PopExpired(reqs[user], t - w)
         IN  IF kept = <<>>
             THEN [v \in DOMAIN reqs \ {user} |-> reqs[v]]
             ELSE [reqs EXCEPT ![user] = kept]
    ELSE reqs

\* can_send_message(user_id) with the clock at t
CanSendMessage(reqs, user, t, w, m) ==
    LET cleaned == CleanupWindow(reqs, user, t, w)
    IN  [ok |-> user \notin DOMAIN cleaned \/ Len(Stamps(cleaned, user)) < m,
         reqs |-> cleaned]

\* record_message(user_id): the clock reads t in can_send_message and
\* t2 >= t when the timestamp is taken
RecordMessage(reqs, user, t, t2, w, m) ==
    LET can == CanSendMessage(reqs, user, t, w, m)
    IN  IF can.ok
        THEN [ok |-> TRUE,
              reqs |-> [v \in DOMAIN can.reqs \cup {user} |->
                          IF v = user
                          THEN Append(Stamps(can.reqs, user), t2)
                          ELSE can.reqs[v]]]
        ELSE [ok |-> FALSE, reqs |-> can.reqs]

\* time_until_next_allowed(user_id) with the clock at t
TimeUntilNextAllowed(reqs, user, t, w, m) ==
    LET cleaned == CleanupWindow(reqs, user, t, w)
    IN  IF user \notin DOMAIN cleaned \/ Len(cleaned[user]) < m
        THEN [wait |-> 0, reqs |-> cleaned]
        ELSE LET wait_time == cleaned[user][1] + w - t
             IN  [wait |-> IF wait_time > 0 THEN wait_time ELSE 0,
                  reqs |-> cleaned]

\* What lastReq records of a call: the operation, the user, the clock reading
\* the cleanup used, the boolean returned, the wait returned, and how many
\* timestamps of the user the cleanup removed.
ReqCall(op, user, time, ok, wait, removed) ==
    [op |-> op, user |-> user, time |-> time, ok |-> ok, wait |-> wait,
     removed |-> removed]

Removed(reqs, user, t, w) ==
    Len(Stamps(reqs, user)) - Len(Stamps(CleanupWindow(reqs, user, t, w), user))

\* SlidingWindowRateLimiter(window_size, max_requests)
LimInit ==
    /\ window_size \in 1..MaxWindow
    /\ max_requests \in 0..MaxReq
    /\ user_requests = NoUsers
    /\ now = 0
    /\ lastReq = ReqCall("init", "", 0, FALSE, 0, 0)

\* no limiter call is made
LimIdle ==
    /\ window_size = 1 /\ max_requests = 1
    /\ user_requests = NoUsers /\ now = 0
    /\ lastReq = ReqCall("init", "", 0, FALSE, 0, 0)

\* limiter.can_send_message(user), some time after the call before
CanSend ==
    \E user \in Users, t \in now..MaxTime :
        LET res == CanSendMessage(user_requests, user, t,
                                  window_size, max_requests)
        IN  /\ user_requests' = res.reqs
            /\ now' = t
            /\ lastReq' = ReqCall("can", user, t, res.ok, 0,
                                  Removed(user_requests, user, t, window_size))
            /\ UNCHANGED <<window_size, max_requests>>

\* limiter.record_message(user)
Record ==
    \E user \in Users, t \in now..MaxTime :
        \E t2 \in t..MaxTime :
            LET res == RecordMessage(user_requests, user, t, t2,
                                     window_size, max_requests)
            IN  /\ user_requests' = res.reqs
                /\ now' = IF res.ok THEN t2 ELSE t
                /\ lastReq' = ReqCall("record", user, t, res.ok, 0,
                                      Removed(user_requests, user, t,
                                              window_size))
                /\ UNCHANGED <<window_size, max_requests>>

\* limiter.time_until_next_allowed(user)
TimeUntil ==
    \E user \in Users, t \in now..MaxTime :
        LET res == TimeUntilNextAllowed(user_requests, user, t,
                                        window_size, max_requests)
        IN  /\ user_requests' = res.reqs
            /\ now' = t
            /\ lastReq' = ReqCall("wait", user, t, FALSE, res.wait,
                                  Removed(user_requests, user, t, window_size))
            /\ UNCHANGED <<window_size, max_requests>>

\* --------------------------------------------------------------- the system
\* LRUCache(cap) for a cap of `caps`, beside an array of `arrays`
CacheInit(arrays, caps) ==
    /\ array \in arrays
    /\ arrayNC = array
    /\ cache = <<>>
    /\ capacity \in caps
    /\ recent = <<>>
    /\ invalidated = FALSE
    /\ last = Call("init", None, None, None, None, FALSE, 0, FALSE, FALSE, FALSE)
    /\ raised = FALSE
    /\ steps = 0
    /\ GenIdle
    /\ LimIdle

Init == CacheInit(Arrays, 1..MaxCap)

Step == steps < MaxSteps /\ steps' = steps + 1

\* cache.get(key)
Get ==
    \E key \in Keys :
        LET got == CacheGet(cache, key)
        IN  /\ Step
            /\ cache' = got.cache
            /\ recent' = IF HasKey(cache, key) /\ ~invalidated
                         THEN Touch(recent, key, capacity) ELSE recent
            /\ last' = Call("get", key, None, None, <<got.ret>>,
                            HasKey(cache, key), Len(cache), FALSE, FALSE,
                            last.op = "get" /\ last.key = key)
            /\ raised' = FALSE
            /\ UNCHANGED <<array, arrayNC, capacity, invalidated>>
            /\ UNCHANGED <<genVars, limVars>>

\* cache.put(key, value)
Put ==
    \E key \in Keys, value \in Vals :
        /\ Step
        /\ cache' = CachePut(cache, capacity, key, value)
        /\ recent' = IF invalidated THEN recent
                     ELSE Touch(recent, key, capacity)
        /\ last' = Call("put", key, None, <<value>>, None,
                        HasKey(cache, key), Len(cache), FALSE, TRUE, FALSE)
        /\ raised' = FALSE
        /\ UNCHANGED <<array, arrayNC, capacity, invalidated>>
        /\ UNCHANGED <<genVars, limVars>>

\* range_sum_with_cache(array, left, right, cache), and the same range asked
\* of range_sum_no_cache(arrayNC, left, right)
RangeSumCall(key) ==
    LET res == RangeSumWithCache(array, key[1], key[2], cache, capacity)
    IN  /\ Step
        /\ cache' = res.cache
        /\ recent' = IF (HasKey(cache, key) \/ res.putCalled) /\ ~invalidated
                     THEN Touch(recent, key, capacity) ELSE recent
        /\ last' = Call("range", key, None, None, <<res.ret>>,
                        HasKey(cache, key), Len(cache),
                        res.scanned, res.putCalled, FALSE)
        /\ raised' = FALSE
        /\ UNCHANGED <<array, arrayNC, capacity, invalidated>>
        /\ UNCHANGED <<genVars, limVars>>

RangeSum == \E key \in Keys : RangeSumCall(key)

\* update_with_cache(array, index, value, cache) and
\* update_no_cache(arrayNC, index, value)
UpdateCall(index, value) ==
    LET res == UpdateWithCache(array, index, value, cache)
    IN  /\ Step
        /\ array' = res.array
        /\ arrayNC' = UpdateNoCache(arrayNC, index, value)
        /\ cache' = res.cache
        /\ last' = Call("update", None, <<index>>, <<value>>, None,
                        FALSE, Len(cache), FALSE, FALSE, FALSE)
        /\ raised' = res.raised
        /\ recent' = <<>>
        /\ invalidated' = TRUE
        /\ UNCHANGED capacity
        /\ UNCHANGED <<genVars, limVars>>

Update == \E index \in Idx, value \in Vals : UpdateCall(index, value)

Next == Get \/ Put \/ RangeSum \/ Update

Spec == Init /\ [][Next]_vars

Covers(key, index) == key[1] <= index /\ index <= key[2]

\* The service alone, as the program drives it: range queries and updates.
NextService == RangeSum \/ Update

SpecService == Init /\ [][NextService]_vars

\* The cache alone: get and put, which never read the array.
InitLRU == Init /\ array = [i \in Idx |-> 1]

NextLRU == Get \/ Put

SpecLRU == InitLRU /\ [][NextLRU]_vars

\* The service called with any integers: indices one below and one above
\* the array's, and ranges with left > right.
WildIdx == (0 - 1)..ArrLen

RangeSumAny == \E key \in WildIdx \X WildIdx : RangeSumCall(key)

UpdateAny == \E index \in WildIdx, value \in Vals : UpdateCall(index, value)

NextWild == RangeSumAny \/ UpdateAny

\* Errors do not depend on the values in the array: one array is enough.
InitWild == CacheInit({[i \in Idx |-> 1]}, 1..MaxCap)

SpecWild == InitWild /\ [][NextWild]_vars

\* The cache constructed with any capacity __init__ accepts: it stores the
\* number it is given.
InitAnyCap == CacheInit({[i \in Idx |-> 1]}, (0 - 1)..MaxCap)

SpecAnyCap == InitAnyCap /\ [][NextLRU]_vars

\* No cache is built.
CacheIdle ==
    /\ array = [i \in Idx |-> 1] /\ arrayNC = array
    /\ cache = <<>> /\ capacity = 1 /\ recent = <<>> /\ invalidated = FALSE
    /\ last = Call("init", None, None, None, None, FALSE, 0, FALSE, FALSE, FALSE)
    /\ raised = FALSE /\ steps = 0

\* make_queries alone
InitGen == CacheIdle /\ GenInit /\ LimIdle

NextGen ==
    \/ (HotDraw /\ UNCHANGED <<cacheVars, limVars>>)
    \/ (GenUpdate /\ UNCHANGED <<cacheVars, limVars>>)
    \/ (GenHot /\ UNCHANGED <<cacheVars, limVars>>)
    \/ (GenRandom /\ UNCHANGED <<cacheVars, limVars>>)
    \/ (GenReturn /\ UNCHANGED <<cacheVars, limVars>>)

SpecGen == InitGen /\ [][NextGen]_vars

\* the rate limiter alone
InitLim == CacheIdle /\ GenIdle /\ LimInit

NextLim ==
    \/ (CanSend /\ UNCHANGED <<cacheVars, genVars>>)
    \/ (Record /\ UNCHANGED <<cacheVars, genVars>>)
    \/ (TimeUntil /\ UNCHANGED <<cacheVars, genVars>>)

SpecLim == InitLim /\ [][NextLim]_vars

\* ------------------------------------------------------------- the service
\* C1. Correctness equivalence: every range query answered through the cache
\* returns the sum the uncached scan returns on the equal array, whatever
\* queries and updates came before.
C1_Equivalence ==
    last.op = "range" =>
        last.ret = <<RangeSumNoCache(arrayNC, last.key[1], last.key[2])>>

\* a query answered from the cache, without a scan, after an update
C1_Witness ==
    last.op = "range" /\ last.present /\ ~last.scanned /\ invalidated

\* C2. Invalidation soundness: right after update_with_cache(index) the cache
\* holds no key whose range contains the index.
C2_InvalidationSound ==
    last.op = "update" =>
        \A i \in 1..Len(cache) : ~Covers(cache[i].key, last.index[1])

\* an update that found several keys cached, every one of them covering
C2_Witness ==
    last.op = "update" /\ last.sizeBefore >= 2 /\ cache = <<>>

\* C3. Invalidation precision: update_with_cache(index) keeps every entry
\* whose range does not contain the index, with its value, and keeps those
\* entries in the order they had.
C3_InvalidationPrecise ==
    [][last'.op = "update" =>
        SelectSeq(cache', LAMBDA e : ~Covers(e.key, last'.index[1]))
          = SelectSeq(cache, LAMBDA e : ~Covers(e.key, last'.index[1]))]_vars

\* an update that removed an entry and left at least two
C3_Witness ==
    last.op = "update" /\ Len(cache) >= 2 /\ last.sizeBefore > Len(cache)

\* C10. A cache hit reads no array: a range query whose key is in the cache
\* returns the cached value without scanning the array or calling put.
C10_HitReadsNoArray ==
    last.op = "range" /\ last.present =>
        /\ ~last.scanned
        /\ ~last.putCalled
        /\ last.ret = <<Lookup(cache, last.key)>>

\* ---------------------------------------------------------------- the cache
Entry(key, value) == [key |-> key, value |-> value]

Others(c, key) == SelectSeq(c, LAMBDA e : e.key # key)

\* C4. Capacity invariant: whatever get, put, range_sum_with_cache and
\* update_with_cache calls are made, the cache holds at most `capacity`
\* entries.
C4_Capacity == capacity >= 1 /\ Len(cache) <= capacity

\* a range query that missed on a full cache, and so made put evict
C4_Witness ==
    /\ last.op = "range" /\ last.putCalled /\ ~last.present
    /\ last.sizeBefore = capacity /\ Len(cache) = capacity

\* C5. Recency invariant: driven by get and put alone, the cache holds the
\* min(capacity, number of distinct keys put) most recently touched distinct
\* keys, listed from the least to the most recently touched.
C5_Recency == ~invalidated => GetAllKeys(cache) = recent

\* a put of a new key into a full cache of two or more entries
C5_Witness ==
    /\ last.op = "put" /\ ~last.present /\ ~invalidated
    /\ last.sizeBefore = capacity /\ capacity >= 2 /\ steps = MaxSteps

\* C6. Eviction step: a put of a key that is not cached into a full cache
\* removes the first (least recently used) entry and nothing else, and leaves
\* the new entry last; a put into a cache that is not full removes nothing.
C6_Eviction ==
    [][last'.op = "put" =>
        /\ (~HasKey(cache, last'.key) /\ Len(cache) = capacity =>
                cache' = Append(Tail(cache),
                                Entry(last'.key, last'.value[1])))
        /\ (Len(cache) < capacity =>
                \A i \in 1..Len(cache) : HasKey(cache', cache[i].key))]_vars

\* a put that evicted from a full cache of three entries
C6_Witness ==
    /\ last.op = "put" /\ ~last.present
    /\ last.sizeBefore = capacity /\ capacity >= 3

\* C7. put on an existing key: the value is overwritten, the entry becomes
\* the last one, nothing is evicted, the other entries keep their values and
\* order; and no key ever has two entries.
C7_PutExisting ==
    [][/\ (last'.op = "put" /\ HasKey(cache, last'.key) =>
            /\ Len(cache') = Len(cache)
            /\ cache'[Len(cache')] = Entry(last'.key, last'.value[1])
            /\ Others(cache', last'.key) = Others(cache, last'.key))
       /\ \A i, j \in 1..Len(cache') :
              cache'[i].key = cache'[j].key => i = j]_vars

\* a put on a key already cached, in a full cache of two or more entries
C7_Witness ==
    /\ last.op = "put" /\ last.present
    /\ last.sizeBefore = capacity /\ capacity >= 2

\* C8. get contract: get of a cached key returns the stored value and makes
\* the entry the last one, changing no value and not the order of the others;
\* get of a key that is not cached returns -1 and changes nothing.
C8_GetContract ==
    [][last'.op = "get" =>
        IF HasKey(cache, last'.key)
        THEN /\ last'.ret = <<Lookup(cache, last'.key)>>
             /\ cache'[Len(cache')]
                  = Entry(last'.key, Lookup(cache, last'.key))
             /\ Len(cache') = Len(cache)
             /\ Others(cache', last'.key) = Others(cache, last'.key)
        ELSE /\ last'.ret = <<-1>>
             /\ cache' = cache]_vars

\* a get that found its key in a cache of two or more entries
C8_Witness ==
    last.op = "get" /\ last.present /\ Len(cache) >= 2

\* C9. Idempotence of get: a get of the key the call before it got returns
\* the same value and leaves the size of the cache as it was.
C9_GetIdempotent ==
    [][last.op = "get" /\ last'.op = "get" /\ last'.key = last.key =>
        last'.ret = last.ret /\ Len(cache') = Len(cache)]_vars

\* a second get in a row of a cached key
C9_Witness ==
    last.op = "get" /\ last.again /\ last.present

\* C17. Cache coherence: reached from an empty cache by range queries and
\* updates with in-range arguments, every cached entry (l, r) -> v has
\* v = array[l] + ... + array[r] of the array as it is now.
C17_Coherence ==
    \A i \in 1..Len(cache) :
        cache[i].value = SumFromTo(array, cache[i].key[1], cache[i].key[2])

\* entries that an update of another index left in the cache
C17_Witness ==
    last.op = "update" /\ Len(cache) >= 2

\* ------------------------------------------------------------------ errors
OutOfRange ==
    \/ last.op = "range" /\ last.key \notin Keys
    \/ last.op = "update" /\ last.index[1] \notin Idx

\* C11. Out-of-range fails fast: a range query with left or right outside
\* 0..n-1 or with left > right, and an update with an index outside 0..n-1,
\* raise an error and write no array element.
C11_FailFast ==
    [][OutOfRange' => raised' /\ array' = array]_vars

\* C12. Invalid capacity: no cache with capacity <= 0 exists, and no get or
\* put is made on one.
C12_InvalidCapacityRejected ==
    last.op \in {"get", "put"} => capacity >= 1

\* C13. No partial failure: when a call raises, the array and the cache
\* (entries, values, order) are as they were before it.
C13_NoPartialFailure ==
    [][raised' => array' = array /\ cache' = cache]_vars

\* an update that raised while the cache held a key covering its index
C13_Witness ==
    /\ last.op = "update" /\ raised
    /\ \E i \in 1..Len(cache) : Covers(cache[i].key, last.index[1])

\* ------------------------------------------------------------- make_queries
\* C14 as stated. Hot pool bounds: for n >= 2 every hot range (left, right)
\* has 0 <= left < n/2 and n/2 <= right < n.
C14_HotPoolHalfOpen ==
    gen_n >= 2 =>
        \A i \in 1..Len(hot) :
            /\ 0 <= hot[i][1] /\ 2 * hot[i][1] < gen_n
            /\ gen_n <= 2 * hot[i][2] /\ hot[i][2] < gen_n

\* C14 amended. For n >= 2 every hot range (left, right) has
\* 0 <= left <= n // 2 and n // 2 <= right <= n - 1: both draws include the
\* floor of n/2.
C14_HotPoolClosed ==
    gen_n >= 2 =>
        \A i \in 1..Len(hot) :
            /\ 0 <= hot[i][1] /\ hot[i][1] <= gen_n \div 2
            /\ gen_n \div 2 <= hot[i][2] /\ hot[i][2] <= gen_n - 1

\* a full hot pool holding the range (n // 2, n // 2), for an odd n
C14_Witness ==
    /\ gen_n >= 3 /\ Len(hot) = hot_pool
    /\ \E i \in 1..Len(hot) : hot[i] = <<gen_n \div 2, gen_n \div 2>>

\* C15. Generated operations are valid: make_queries returns exactly q
\* operations, each ("Update", idx, val) with 0 <= idx < n and
\* 1 <= val <= 100, or ("Range", left, right) with 0 <= left <= right < n.
C15_QueriesValid ==
    /\ made <= gen_q
    /\ returned => made = gen_q
    /\ made >= 1 =>
          \/ /\ query.type = "Update"
             /\ 0 <= query.a /\ query.a < gen_n
             /\ 1 <= query.b /\ query.b <= 100
          \/ /\ query.type = "Range"
             /\ 0 <= query.a /\ query.a <= query.b /\ query.b < gen_n

\* make_queries returned two or more queries, the last a range with
\* left = right = n - 1
C15_Witness ==
    /\ returned /\ gen_q >= 2 /\ gen_n >= 2
    /\ query = Query("Range", gen_n - 1, gen_n - 1)

\* ------------------------------------------------------- the rate limiter
LimiterCall == {"can", "record", "wait"}

\* C16. Rate limit: for any max_requests >= 0, after every operation each
\* user's recorded window holds at most max_requests timestamps.
C16_RateLimit ==
    \A user \in DOMAIN user_requests :
        Len(user_requests[user]) <= max_requests

\* C18. Wait time is exact: with max_requests >= 1, time_until_next_allowed
\* returns 0 exactly when can_send_message at that instant returns True;
\* otherwise it returns w > 0 with w = oldest timestamp + window_size - now,
\* record_message is refused at every instant before now + w and accepted
\* at now + w.
C18_WaitExact ==
    lastReq.op = "wait" /\ max_requests >= 1 =>
        LET user == lastReq.user
            t == lastReq.time
            w == lastReq.wait
            Rec(at) == RecordMessage(user_requests, user, at, at,
                                     window_size, max_requests)
        IN  /\ w >= 0
            /\ w = 0 <=> CanSendMessage(user_requests, user, t,
                                        window_size, max_requests).ok
            /\ w > 0 =>
                  /\ w = user_requests[user][1] + window_size - t
                  /\ \A at \in t..(t + w - 1) : ~Rec(at).ok
                  /\ Rec(t + w).ok

\* a wait of two or more ticks returned for a user with a full window of two
C18_Witness ==
    lastReq.op = "wait" /\ lastReq.wait >= 2 /\ max_requests >= 2

Sorted(stamps) ==
    \A i, j \in 1..Len(stamps) : i <= j => stamps[i] <= stamps[j]

\* C19. Window cleanup is complete: every user's timestamps are in
\* non-decreasing order, and after a call for a user at time t none of that
\* user's timestamps <= t - window_size remains and none > t - window_size
\* has been removed.
C19_CleanupComplete ==
    [][lastReq'.op \in LimiterCall =>
        LET user == lastReq'.user
            start == lastReq'.time - window_size
            before == Stamps(user_requests, user)
            after == Stamps(user_requests', user)
            live == SelectSeq(before, LAMBDA x : x > start)
        IN  /\ \A v \in DOMAIN user_requests' : Sorted(user_requests'[v])
            /\ \A i \in 1..Len(after) : after[i] > start
            /\ Len(after) >= Len(live)
            /\ SubSeq(after, 1, Len(live)) = live]_vars

\* a cleanup that removed some of a user's timestamps and kept another
C19_Witness ==
    /\ lastReq.op = "can" /\ lastReq.removed >= 1
    /\ lastReq.user \in DOMAIN user_requests

\* C20. No empty windows and per-user isolation: after every call no user is
\* mapped to an empty window, and the timestamps of every user other than
\* the one the call was made for are unchanged.
C20_NoEmptyIsolated ==
    [][lastReq'.op \in LimiterCall =>
        /\ \A v \in DOMAIN user_requests' : user_requests'[v] # <<>>
        /\ \A v \in Users \ {lastReq'.user} :
              /\ v \in DOMAIN user_requests' <=> v \in DOMAIN user_requests
              /\ Stamps(user_requests', v) = Stamps(user_requests, v)]_vars

\* a call whose cleanup emptied the user's window, so that the user was
\* deleted, while another user stays recorded
C20_Witness ==
    /\ lastReq.op \in LimiterCall /\ lastReq.removed >= 1
    /\ lastReq.user \notin DOMAIN user_requests
    /\ DOMAIN user_requests # {}

====
